---- MODULE Spec2Model ----
(***************************************************************************)
(* A model of the zitie worksheet generator (src/app.py): the character    *)
(* stream, the paginator (generate_multi_page_images), the page composer   *)
(* (generate_single_page_image), the PDF exporter (images_to_pdf) and the  *)
(* font resolver (load_font); the button handlers of the Streamlit script;  *)
(* the grid drawing routines; and the corpus loader (src/dataloader.py).   *)
(*                                                                         *)
(* A text is a sequence of one-character strings.  A rendered page is a    *)
(* record of its two layers: `grid`, the decoration drawn on the white     *)
(* canvas for each cell, and `text_layer`, the glyph drawn on the          *)
(* transparent overlay for each cell (NoGlyph where nothing was drawn).    *)
(* Both layers list the cells in the order the composer visits them, so    *)
(* the cell of 0-based row r and column c is entry r * cols + c + 1.       *)
(***************************************************************************)
EXTENDS Integers, Sequences, FiniteSets, TLC

\* ------------------------------------------------------------------ bounds
MaxTextLen == 3
MaxCols == 2
MaxRows == 5
MaxRepeat == 2
MaxPageChars == 4
MaxTargets == 2
MaxUITextLen == 2
MaxDrawSize == 90
MaxGridCols == 20
MaxGridRows == 20

\* ------------------------------------------------------- program constants
PAGE_WIDTH == 2480
PAGE_HEIGHT == 3508
margin_x == 150
margin_y == 250
PREVIEW_FONT_SIZE == 40

\* ------------------------------------------------------------ input domains
\* Characters for which str.isspace() is true, and two ink characters.  The
\* texts the model draws use the ink characters and the space.
Whitespace == {" ", "\t", "\n"}
InkChars == {"A", "B"}
Alphabet == InkChars \cup {" "}

SeqsUpTo(S, n) == UNION {[1..k -> S] : k \in 0..n}

Texts == SeqsUpTo(Alphabet, MaxTextLen)

\* The entries of the "demo level" select box that the model draws from,
\* with an unknown name that takes the mapping's default.
DemoLevels == {"moderate", "white", "unlisted"}

\* Font files that ImageFont.truetype may or may not be able to open: a file
\* of the user's font directory and the three fallback names of load_font.
FontFiles == {"./fonts/kai.ttf", "simkai.ttf", "simhei.ttf", "msyh.ttc"}

\* The font_path arguments the model draws: no selection, the user's file,
\* and a selection that is also a fallback name.
RequestPaths == {"", "./fonts/kai.ttf", "simkai.ttf"}

FontSizes == {PREVIEW_FONT_SIZE}

\* A font handle is the file it was read from and its size.  NoFont stands
\* for Python's None, DefaultFont for what ImageFont.load_default() returns
\* (its size is Pillow's own, not the requested one).
NoFont == [file |-> "None", size |-> 0]
DefaultFont == [file |-> "load_default", size |-> 0]
NoInfo == [path |-> "None", family |-> "None", style |-> "None", source |-> "None"]
NoReturn == [raised |-> FALSE, font |-> NoFont, info |-> NoInfo]

NoGlyph == [ch |-> "", alpha |-> -1]
NoImage == [grid |-> <<>>, text_layer |-> <<>>, font |-> NoFont]

\* ------------------------------------------------------------ pure helpers
Max(a, b) == IF a >= b THEN a ELSE b
Min(a, b) == IF a <= b THEN a ELSE b

\* str.isspace() of a one-character string.
isspace(c) == c \in Whitespace

\* math.ceil(a / b) for integers a >= 0, b > 0: the float quotient of such
\* small integers rounds up to the least integer not below a/b.
math_ceil(a, b) == IF a % b = 0 THEN a \div b ELSE (a \div b) + 1

\* Python's s[start:end] for 0 <= start <= end: both indices are clamped to
\* len(s); the result is empty when start >= len(s).
PySlice(s, start, end) ==
    LET lo == Min(start, Len(s))
        hi == Min(end, Len(s))
    IN  IF lo >= hi THEN <<>> ELSE [k \in 1..(hi - lo) |-> s[lo + k]]

\* [ch] * n
Repeated(ch, n) == [k \in 1..n |-> ch]

\* get_demo_alpha: level name -> alpha, 110 when the name is not in the map.
get_demo_alpha(level) ==
    CASE level = "moderate" -> 110
      [] level = "white" -> 0
      [] OTHER -> 110

\* ------------------------------------------------------------- the stream
\* chars = [c for c in text if not c.isspace()]
StripSpace(text) == SelectSeq(text, LAMBDA c : ~isspace(c))

\* Mutant: the whole list is repeated instead of each character.
RECURSIVE layout_chars_tiled(_, _)
layout_chars_tiled(chars, repeat) ==
    IF repeat = 0 THEN <<>> ELSE chars \o layout_chars_tiled(chars, repeat - 1)

\* layout_chars: for ch in chars: result.extend([ch] * repeat)
RECURSIVE layout_loop(_, _, _, _)
layout_loop(chars, repeat, i, result) ==
    IF i > Len(chars) THEN result
    ELSE layout_loop(chars, repeat, i + 1, result \o Repeated(chars[i], repeat))

layout_chars(chars, repeat) == layout_loop(chars, repeat, 1, <<>>)

\* -------------------------------------------------------- the font resolver
\* The source labels of load_font, in English: "用户选择字体",
\* "回退字体（<name>）" and "Pillow 默认字体".
USER_LABEL == "user-selected font"
fallback_label(fb) == "fallback font (" \o fb \o ")"
DEFAULT_LABEL == "Pillow default font"

fallbacks == <<"simkai.ttf", "simhei.ttf", "msyh.ttc">>

\* ImageFont.truetype(path, size): the font, or an exception when the file
\* cannot be opened as a font.
truetype(installed, path, size) ==
    IF path \in installed
    THEN [ok |-> TRUE, font |-> [file |-> path, size |-> size]]
    ELSE [ok |-> FALSE, font |-> NoFont]

\* font.getname(): the names stored in the font, here named after its file.
getname(font) == [family |-> font.file, style |-> "Regular"]

\* str(Path(path)): a leading "./" is dropped.
PathStr(path) ==
    CASE path = "./fonts/kai.ttf" -> "fonts/kai.ttf"
      [] OTHER -> path

\* try_path: (font, info), or (None, None) when anything was raised.
try_path(installed, path, size, source_label) ==
    LET t == truetype(installed, path, size)
    IN  IF t.ok
        THEN [raised |-> FALSE, font |-> t.font,
              info |-> [path |-> PathStr(path),
                        family |-> getname(t.font).family,
                        style |-> getname(t.font).style,
                        source |-> source_label]]
        ELSE [raised |-> FALSE, font |-> NoFont, info |-> NoInfo]

\* Step 3 of load_font: the built-in default font.
default_font ==
    [raised |-> FALSE, font |-> DefaultFont,
     info |-> [path |-> "Pillow built-in default font (may lack Chinese)",
               family |-> getname(DefaultFont).family,
               style |-> getname(DefaultFont).style,
               source |-> DEFAULT_LABEL]]

\* Step 2 of load_font: "for fb in fallbacks", from the i-th name on.
RECURSIVE fallback_loop(_, _, _)
fallback_loop(installed, size, i) ==
    IF i > Len(fallbacks) THEN default_font
    ELSE LET t == try_path(installed, fallbacks[i], size,
                           fallback_label(fallbacks[i]))
         IN  IF t.raised \/ t.font # NoFont THEN t
             ELSE fallback_loop(installed, size, i + 1)

\* Mutant: the fallback names are tried before the requested path.
load_font_fallbacks_first(installed, font_path, size) ==
    LET fb == fallback_loop(installed, size, 1)
        user == try_path(installed, font_path, size, USER_LABEL)
    IN  IF fb.font # DefaultFont THEN fb
        ELSE IF font_path # "" /\ user.font # NoFont THEN user
        ELSE fb

\* The body of load_font.
load_font(installed, font_path, size) ==
    LET user == IF font_path # ""
                THEN try_path(installed, font_path, size, USER_LABEL)
                ELSE NoReturn
    IN  IF user.raised \/ user.font # NoFont THEN user
        ELSE fallback_loop(installed, size, 1)

\* @st.cache_resource: a call with arguments seen before returns the stored
\* result without running the body; a result is stored when the body returns.
cached_load_font(cache, installed, font_path, size) ==
    LET key == <<font_path, size>>
    IN  IF key \in DOMAIN cache
        THEN [ret |-> cache[key], cache |-> cache]
        ELSE LET r == load_font(installed, font_path, size)
             IN  [ret |-> r,
                  cache |-> IF r.raised THEN cache ELSE cache @@ (key :> r)]

\* ------------------------------------------------------- the page composer
\* Mutant: the half is rounded as rows // 2 + 1.
demo_rows_per_page_off(rows, blank_row_after_each) ==
    IF blank_row_after_each THEN (rows \div 2) + 1 ELSE rows

demo_rows_per_page(rows, blank_row_after_each) ==
    IF blank_row_after_each THEN math_ceil(rows, 2) ELSE rows

max_demo_cells(cols, rows, blank_row_after_each) ==
    cols * demo_rows_per_page(rows, blank_row_after_each)

is_demo_row(r, blank_row_after_each) ==
    IF blank_row_after_each THEN r % 2 = 0 ELSE TRUE

usable_width == PAGE_WIDTH - margin_x * 2
usable_height == PAGE_HEIGHT - margin_y * 2

cell_size(cols, rows) == Min(usable_width \div cols, usable_height \div rows)
\* Mutant: the block starts at the left margin.
offset_x_at_margin(cols, rows) == margin_x

offset_x(cols, rows) == (PAGE_WIDTH - cell_size(cols, rows) * cols) \div 2
offset_y(cols, rows) == (PAGE_HEIGHT - cell_size(cols, rows) * rows) \div 2

\* font_size = int(cell_size * 0.7).  The double nearest to 0.7 lies below
\* 0.7, and for these multiples of ten the product rounds to a double below
\* the integer 7 * cell_size / 10, so int() gives one less.
rounds_below(n) ==
    /\ n % 10 = 0
    /\ \/ n = 90
       \/ n \in 170..180
       \/ n \in 330..360
       \/ n \in 650..730
       \/ n \in 1290..1460

font_size_of(cols, rows) ==
    LET n == cell_size(cols, rows)
    IN  IF rounds_below(n) THEN ((7 * n) \div 10) - 1 ELSE (7 * n) \div 10

\* The call draw_grid(draw, x, y, cell_size, ...) made for cell <<r, c>>.
GridCall(r, c, cols, rows) ==
    [x |-> offset_x(cols, rows) + c * cell_size(cols, rows),
     y |-> offset_y(cols, rows) + r * cell_size(cols, rows),
     size |-> cell_size(cols, rows)]

\* Mutant: the row test is missing.
places_glyph_any_row(show_demo, demo_row, index, page_chars, limit) ==
    show_demo /\ index < Len(page_chars) /\ index < limit

\* Mutant: the show_demo gate is missing.
places_glyph_no_gate(show_demo, demo_row, index, page_chars, limit) ==
    demo_row /\ index < Len(page_chars) /\ index < limit

\* The test of lines 452-457 that decides whether the cell gets a glyph.
places_glyph(show_demo, demo_row, index, page_chars, limit) ==
    show_demo /\ demo_row /\ index < Len(page_chars) /\ index < limit

\* The double loop "for r in range(rows): for c in range(cols)", one cell
\* per step: k = r * cols + c counts the cells in row-major order, `index`
\* is the code's cursor into page_chars, `img` the two layers so far.
RECURSIVE cell_loop(_, _, _, _, _, _, _, _, _)
cell_loop(k, index, img, page_chars, alpha, cols, rows, show_demo, blank) ==
    IF k >= rows * cols THEN img
    ELSE
      LET r == k \div cols
          c == k % cols
          put == places_glyph(show_demo, is_demo_row(r, blank), index,
                              page_chars, max_demo_cells(cols, rows, blank))
          glyph == IF put THEN [ch |-> page_chars[index + 1], alpha |-> alpha]
                   ELSE NoGlyph
          img2 == [grid |-> Append(img.grid, GridCall(r, c, cols, rows)),
                   text_layer |-> Append(img.text_layer, glyph),
                   font |-> img.font]
      IN  cell_loop(k + 1, IF put THEN index + 1 ELSE index, img2,
                    page_chars, alpha, cols, rows, show_demo, blank)

\* generate_single_page_image; `font` is what its call
\* load_font(font_path, font_size) returned.
generate_single_page_image(font, page_chars, demo_level, cols, rows, show_demo, blank) ==
    cell_loop(0, 0, [NoImage EXCEPT !.font = font], page_chars,
              get_demo_alpha(demo_level), cols, rows, show_demo, blank)

\* ----------------------------------------------------------- the paginator
page_capacity(cols, rows, blank_row_after_each) ==
    cols * demo_rows_per_page(rows, blank_row_after_each)

\* Mutant: the quotient is rounded down.
total_pages_floor(n, capacity) == Max(1, n \div capacity)

\* Mutant: one page more than the rounded-down quotient.
total_pages_plus_one(n, capacity) == (n \div capacity) + 1

total_pages(n, capacity) == Max(1, math_ceil(n, capacity))

\* Mutant: the slice runs one character into the next page.
page_chars_of_overlap(chars, page_idx, capacity, fill_last_page) ==
    LET start == page_idx * capacity
        end == start + capacity + 1
        chunk == PySlice(chars, start, end)
    IN  IF fill_last_page /\ Len(chunk) < capacity /\ chunk # <<>>
        THEN chunk \o Repeated(chunk[Len(chunk)], capacity - Len(chunk))
        ELSE chunk

\* Mutant: the padding repeats the chunk's first character.
page_chars_of_pad_first(chars, page_idx, capacity, fill_last_page) ==
    LET start == page_idx * capacity
        end == start + capacity
        chunk == PySlice(chars, start, end)
    IN  IF fill_last_page /\ Len(chunk) < capacity /\ chunk # <<>>
        THEN chunk \o Repeated(chunk[1], capacity - Len(chunk))
        ELSE chunk

\* Lines 525-532: the chunk of page page_idx (0-based), padded when asked.
page_chars_of(chars, page_idx, capacity, fill_last_page) ==
    LET start == page_idx * capacity
        end == start + capacity
        chunk == PySlice(chars, start, end)
    IN  IF fill_last_page /\ Len(chunk) < capacity /\ chunk # <<>>
        THEN chunk \o Repeated(chunk[Len(chunk)], capacity - Len(chunk))
        ELSE chunk

\* generate_multi_page_images.  The result records, beside the returned
\* list of images, the character stream and the page_chars argument of each
\* call of generate_single_page_image, in call order.  Every page asks
\* load_font for the same (font_path, font_size), so all pages get `font`.
generate_multi_page_images(font, text, demo_level, cols, rows, repeat_each, show_demo, fill_last_page, blank) ==
    LET stripped == StripSpace(text)
    IN  IF stripped = <<>>
        THEN [chars |-> <<>>, page_chars |-> <<>>, images |-> <<>>]
        ELSE
          LET chars == layout_chars(stripped, repeat_each)
              capacity == page_capacity(cols, rows, blank)
              n == total_pages(Len(chars), capacity)
              chunks == [p \in 1..n |->
                            page_chars_of(chars, p - 1, capacity, fill_last_page)]
          IN  [chars |-> chars,
               page_chars |-> chunks,
               images |-> [p \in 1..n |->
                             generate_single_page_image(font, chunks[p],
                                 demo_level, cols, rows, show_demo, blank)]]

\* ------------------------------------------------------------ the exporter
\* Mutant: no early return for an empty list.
images_to_pdf_no_guard(images) ==
    <<"%PDF">> \o [p \in 1..Len(images) |-> [page |-> images[p]]]

\* images_to_pdf: b"" for no images, else one PDF holding the pages in order
\* (a header followed by one page object per image).
images_to_pdf(images) ==
    IF images = <<>> THEN <<>>
    ELSE <<"%PDF">> \o [p \in 1..Len(images) |-> [page |-> images[p]]]

\* --------------------------------------------------------- the corpus loader
\* self.datasets, read from datas.json: a dataset kept as one JSON file and
\* one kept as a directory of JSON files with an exclusion list.
datasets ==
    [ds \in {"song", "tang"} |->
        IF ds = "song"
        THEN [id |-> 0, path |-> "song.json", tag |-> "paragraphs", excludes |-> {}]
        ELSE [id |-> 1, path |-> "tang", tag |-> "paragraphs",
              excludes |-> {"skip.json"}]]

\* self.id_table = {v["id"]: k for (k, v) in self.datasets.items()}
id_table == [i \in {datasets[k].id : k \in DOMAIN datasets} |->
                CHOOSE k \in DOMAIN datasets : datasets[k].id = i]

\* The dataset names and ids a caller may ask for; "nope" and 7 are unknown.
TargetNames == DOMAIN datasets \cup {"nope"}
TargetIds == DOMAIN id_table \cup {7}
PathKinds == {"missing", "file", "dir"}

\* The poems a JSON file holds, and what os.listdir gives for a directory.
Poem(title, author, paragraphs) ==
    [title |-> title, author |-> author, paragraphs |-> paragraphs]
FileData(name) ==
    CASE name = "skip.json" -> <<Poem("skipped", "nobody", <<"x">>)>>
      [] name = "a.json" -> <<Poem("T1", "Li", <<"l1", "l2">>)>>
      [] OTHER -> <<Poem("T2", "Su", <<"m1">>), Poem("T3", "Su", <<"m2", "m3">>)>>
listdir == <<"a.json", "skip.json">>

\* What a loader method did: the exception it raised ("none" when it
\* returned), whether it returned None, and the list it returned.
Returned(value) == [raised |-> "none", is_none |-> FALSE, value |-> value]
ReturnedNone == [raised |-> "none", is_none |-> TRUE, value |-> <<>>]
Raised(exc) == [raised |-> exc, is_none |-> FALSE, value |-> <<>>]

\* "for poem in data: body += poem[tag]"
RECURSIVE body_of(_)
body_of(data) ==
    IF data = <<>> THEN <<>> ELSE Head(data).paragraphs \o body_of(Tail(data))

\* "\n".join(paras)
RECURSIVE join_lines(_)
join_lines(paras) ==
    IF paras = <<>> THEN ""
    ELSE IF Len(paras) = 1 THEN paras[1]
    ELSE paras[1] \o "\n" \o join_lines(Tail(paras))

\* collect_from_file: one text per poem, a title line and then the body.
RECURSIVE texts_of(_)
texts_of(data) ==
    IF data = <<>> THEN <<>>
    ELSE LET poem == Head(data)
             body == join_lines(poem.paragraphs)
         IN  (IF body # ""
              THEN <<poem.title \o "." \o poem.author \o "\n" \o body>>
              ELSE <<>>) \o texts_of(Tail(data))

\* The loop over os.listdir(full_path), skipping the excluded names: the
\* poems of the files read, in reading order.
RECURSIVE dir_data(_, _)
dir_data(names, excludes) ==
    IF names = <<>> THEN <<>>
    ELSE (IF Head(names) \in excludes THEN <<>> ELSE FileData(Head(names)))
         \o dir_data(Tail(names), excludes)

\* PlainDataLoader.body_extractor; fs gives the kind of each dataset's path.
body_extractor(fs, target) ==
    IF target \notin DOMAIN datasets THEN ReturnedNone
    ELSE LET configs == datasets[target]
         IN  CASE fs[configs.path] = "file" ->
                    Returned(body_of(FileData(configs.path)))
               [] fs[configs.path] = "dir" ->
                    Returned(body_of(dir_data(listdir, configs.excludes)))
               [] OTHER -> Raised("FileNotFoundError")

\* PlainDataLoader.poems_as_text
poems_as_text(fs, target) ==
    IF target \notin DOMAIN datasets THEN Returned(<<>>)
    ELSE LET configs == datasets[target]
         IN  CASE fs[configs.path] = "file" ->
                    Returned(texts_of(FileData(configs.path)))
               [] fs[configs.path] = "dir" ->
                    Returned(texts_of(dir_data(listdir, configs.excludes)))
               [] OTHER -> Raised("FileNotFoundError")

\* "results += self.body_extractor(target)" for each target in turn: an
\* exception of body_extractor propagates, and adding None to a list raises.
RECURSIVE extract_loop(_, _, _)
extract_loop(fs, targets, results) ==
    IF targets = <<>> THEN Returned(results)
    ELSE LET r == body_extractor(fs, Head(targets))
         IN  IF r.raised # "none" THEN r
             ELSE IF r.is_none THEN Raised("TypeError")
             ELSE extract_loop(fs, Tail(targets), results \o r.value)

\* PlainDataLoader.extract_from_multiple
extract_from_multiple(fs, targets) == extract_loop(fs, targets, <<>>)

\* PlainDataLoader.extract_with_ids: self.id_table[id] raises for an unknown id.
RECURSIVE extract_with_ids_loop(_, _, _)
extract_with_ids_loop(fs, ids, results) ==
    IF ids = <<>> THEN Returned(results)
    ELSE IF Head(ids) \notin DOMAIN id_table THEN Raised("KeyError")
    ELSE LET r == body_extractor(fs, id_table[Head(ids)])
         IN  IF r.raised # "none" THEN r
             ELSE IF r.is_none THEN Raised("TypeError")
             ELSE extract_with_ids_loop(fs, Tail(ids), results \o r.value)

extract_with_ids(fs, ids) == extract_with_ids_loop(fs, ids, <<>>)

NoCall == [op |-> "none", arg |-> <<>>]

\* ------------------------------------------------------------------- state
\* ------------------------------------------------------- the grid drawers
\* What ImageDraw draws: draw.rectangle([x1, y1, x2, y2], width) and
\* draw.line([x1, y1, x2, y2], width = 1).
Rectangle(x1, y1, x2, y2, width) ==
    [shape |-> "rectangle", x1 |-> x1, y1 |-> y1, x2 |-> x2, y2 |-> y2, width |-> width]
Line(x1, y1, x2, y2) ==
    [shape |-> "line", x1 |-> x1, y1 |-> y1, x2 |-> x2, y2 |-> y2, width |-> 1]

\* The names of the grid styles.  The source's names are Chinese (tianzige,
\* mizige, huigongge, fangge, jiugongge); the model spells them in ASCII.
TIAN == "tianzige"
MI == "mizige"
HUI == "huigongge"
SQUARE == "fangge"
JIU == "jiugongge"
GridTypes == {TIAN, MI, HUI, SQUARE, JIU, "other"}

draw_tianzige(x, y, size) ==
    LET x2 == x + size
        y2 == y + size
    IN  << Rectangle(x, y, x2, y2, 2),
           Line(x + size \div 2, y, x + size \div 2, y2),
           Line(x, y + size \div 2, x2, y + size \div 2) >>

draw_mizige(x, y, size) ==
    LET x2 == x + size
        y2 == y + size
    IN  << Rectangle(x, y, x2, y2, 2),
           Line(x, y, x2, y2),
           Line(x2, y, x, y2),
           Line(x + size \div 2, y, x + size \div 2, y2),
           Line(x, y + size \div 2, x2, y + size \div 2) >>

draw_huigongge(x, y, size) ==
    LET x2 == x + size
        y2 == y + size
        margin == size \div 6
        margin2 == margin * 2
    IN  << Rectangle(x, y, x2, y2, 2),
           Rectangle(x + margin, y + margin, x2 - margin, y2 - margin, 1),
           Rectangle(x + margin2, y + margin2, x2 - margin2, y2 - margin2, 1) >>

draw_square(x, y, size) ==
    << Rectangle(x, y, x + size, y + size, 2) >>

draw_jiugongge(x, y, size) ==
    LET x2 == x + size
        y2 == y + size
        step == size \div 3
    IN  << Rectangle(x, y, x2, y2, 2),
           Line(x + step, y, x + step, y2),
           Line(x + 2 * step, y, x + 2 * step, y2),
           Line(x, y + step, x2, y + step),
           Line(x, y + 2 * step, x2, y + 2 * step) >>

draw_grid(x, y, size, grid_type) ==
    IF grid_type = TIAN THEN draw_tianzige(x, y, size)
    ELSE IF grid_type = MI THEN draw_mizige(x, y, size)
    ELSE IF grid_type = HUI THEN draw_huigongge(x, y, size)
    ELSE IF grid_type = SQUARE THEN draw_square(x, y, size)
    ELSE IF grid_type = JIU THEN draw_jiugongge(x, y, size)
    ELSE draw_square(x, y, size)

\* ------------------------------------------------------ the page's script
\* str.strip(): the text without its leading and trailing whitespace.
RECURSIVE lstrip(_)
lstrip(s) == IF s # <<>> /\ isspace(s[1]) THEN lstrip(Tail(s)) ELSE s

RECURSIVE rstrip(_)
rstrip(s) ==
    IF s # <<>> /\ isspace(s[Len(s)]) THEN rstrip(SubSeq(s, 1, Len(s) - 1)) ELSE s

strip(s) == rstrip(lstrip(s))

\* The widgets the generation reads.  The sliders start at cols_num = 10 and
\* rows_num = 14; the model keeps both at the sliders' minimum, which gives
\* the smallest page, leaves the two check boxes that do not change the
\* number of pages as they start, and moves the others.
MinColsNum == 5
MinRowsNum == 5
MaxRepeatEach == 10

Widgets ==
    [cols : {MinColsNum}, rows : {MinRowsNum}, repeat_each : {1, MaxRepeatEach},
     show_demo : {TRUE}, fill_last_page : {FALSE},
     blank_row_after_each : BOOLEAN, demo_level : {"moderate"}]

DefaultWidgets ==
    [cols |-> MinColsNum, rows |-> MinRowsNum, repeat_each |-> 1,
     show_demo |-> TRUE, fill_last_page |-> FALSE,
     blank_row_after_each |-> FALSE, demo_level |-> "moderate"]

UITexts == SeqsUpTo({" ", "A"}, MaxUITextLen)

\* The four keys of st.session_state the script keeps the document in.
NewSession ==
    [zitie_images |-> <<>>, zitie_total_pages |-> 0,
     zitie_current_page |-> 1, zitie_pdf_bytes |-> <<>>]

StoredSession(images, page) ==
    [zitie_images |-> images, zitie_total_pages |-> Len(images),
     zitie_current_page |-> page, zitie_pdf_bytes |-> images_to_pdf(images)]

GeneratedImages(font, text, w) ==
    generate_multi_page_images(font, text, w.demo_level, w.cols, w.rows,
        w.repeat_each, w.show_demo, w.fill_last_page,
        w.blank_row_after_each).images

\* Mutant: a press with nothing to generate stores the empty result.
generate_button_clears(session, clicked, font, text, w) ==
    IF ~clicked THEN [session |-> session, message |-> "none"]
    ELSE IF strip(text) = <<>>
    THEN [session |-> StoredSession(<<>>, 1), message |-> "warning"]
    ELSE [session |-> StoredSession(GeneratedImages(font, text, w), 1),
          message |-> "success"]

\* Mutant: a generation keeps the page the session was at.
generate_button_keeps_page(session, clicked, font, text, w) ==
    IF ~clicked THEN [session |-> session, message |-> "none"]
    ELSE IF strip(text) = <<>> THEN [session |-> session, message |-> "warning"]
    ELSE [session |-> StoredSession(GeneratedImages(font, text, w),
                                    session.zitie_current_page),
          message |-> "success"]

\* Lines 783-809: the generate button and its handler.  `clicked` is what
\* st.button returns in this rerun.
generate_button(session, clicked, font, text, w) ==
    IF ~clicked THEN [session |-> session, message |-> "none"]
    ELSE IF strip(text) = <<>> THEN [session |-> session, message |-> "warning"]
    ELSE
      LET images == GeneratedImages(font, text, w)
      IN  IF images = <<>> THEN [session |-> session, message |-> "error"]
          ELSE [session |-> StoredSession(images, 1), message |-> "success"]

NoView == [shown |-> FALSE, label_page |-> 0, preview_page |-> 0, png_page |-> 0]

\* Lines 812-857: the preview section.  after_prev is
\* st.session_state.zitie_current_page once the previous-page button has been
\* handled, which is the value the label is formatted from; after_next is its
\* value once the next-page button has been handled, which line 835 reads
\* back into current_page for the preview image and the PNG button.
preview_section(session, prev_clicked, next_clicked) ==
    IF session.zitie_images = <<>> THEN [session |-> session, view |-> NoView]
    ELSE
      LET n_pages == session.zitie_total_pages
          current_page == session.zitie_current_page
          after_prev == IF prev_clicked /\ current_page > 1
                        THEN current_page - 1 ELSE current_page
          after_next == IF next_clicked /\ current_page < n_pages
                        THEN after_prev + 1 ELSE after_prev
      IN  [session |-> [session EXCEPT !.zitie_current_page = after_next],
           view |-> [shown |-> TRUE, label_page |-> after_prev,
                     preview_page |-> after_next, png_page |-> after_next]]

VARIABLES
    pc,                     \* position of the run
    text, demo_level, cols, rows, repeat_each,
    show_demo, fill_last_page, blank_row_after_each,   \* the arguments
    chars,                  \* the character stream of generate_multi_page_images
    page_chunks,            \* page_chars handed to each page, in page order
    images,                 \* the list generate_multi_page_images returned
    pdf_bytes,              \* the buffer images_to_pdf returned
    page_chars,             \* argument of a direct generate_single_page_image call
    page_img,               \* the page that call returned
    installed,              \* the font files ImageFont.truetype can open now
    font_path,              \* the font_path argument
    font_cache,             \* st.cache_resource of load_font: (path, size) -> result
    font_ret,               \* what the last call of load_font returned
    path_kind,              \* the file system: what each dataset path is now
    loader_call,            \* the last loader method called and its argument
    loader_ret,             \* what that call did
    zitie_input_text,       \* st.session_state.zitie_input_text
    widgets,                \* the values of the sliders and check boxes
    zitie_images,           \* st.session_state.zitie_images
    zitie_total_pages,      \* st.session_state.zitie_total_pages
    zitie_current_page,     \* st.session_state.zitie_current_page
    zitie_pdf_bytes,        \* st.session_state.zitie_pdf_bytes
    pressed,                \* the button whose click started the last rerun
    message,                \* st.warning / st.error / st.success of that rerun
    preview_shown,          \* whether that rerun rendered the preview section
    label_page,             \* the page number in the navigation label
    preview_page,           \* the index of the image rendered in the preview
    png_page,               \* the page number of the PNG download button
    grid_type,              \* the grid_type argument of draw_grid
    cell_x, cell_y, cell_sz, \* the x, y and size arguments of draw_grid
    cell_at,                \* the <<r, c>> of the cell loop, <<>> outside it
    drawn                   \* what the call drew, in drawing order

args == <<text, demo_level, cols, rows, repeat_each,
          show_demo, fill_last_page, blank_row_after_each>>
gen_vars == <<chars, page_chunks, images, pdf_bytes>>
page_vars == <<page_chars, page_img>>
font_vars == <<installed, font_path, font_cache, font_ret>>
loader_vars == <<path_kind, loader_call, loader_ret>>
session_vars == <<zitie_images, zitie_total_pages, zitie_current_page,
                  zitie_pdf_bytes>>
view_vars == <<preview_shown, label_page, preview_page, png_page>>
ui_vars == <<zitie_input_text, widgets, session_vars, pressed, message, view_vars>>
draw_vars == <<grid_type, cell_x, cell_y, cell_sz, cell_at, drawn>>
ext_vars == <<loader_vars, ui_vars, draw_vars>>
vars == <<pc, args, gen_vars, page_vars, font_vars, ext_vars>>

\* The parts of the state a specification does not use, at rest.
DatasetPaths == {datasets[k].path : k \in DOMAIN datasets}

IdleLoader ==
    /\ path_kind = [q \in DatasetPaths |-> "missing"]
    /\ loader_call = NoCall
    /\ loader_ret = Returned(<<>>)

IdleUI ==
    /\ zitie_input_text = <<>>
    /\ widgets = DefaultWidgets
    /\ zitie_images = <<>>
    /\ zitie_total_pages = 0
    /\ zitie_current_page = 1
    /\ zitie_pdf_bytes = <<>>
    /\ pressed = "none"
    /\ message = "none"
    /\ preview_shown = FALSE
    /\ label_page = 0
    /\ preview_page = 0
    /\ png_page = 0

IdleDraw ==
    /\ grid_type = MI
    /\ cell_x = 0
    /\ cell_y = 0
    /\ cell_sz = 1
    /\ cell_at = <<>>
    /\ drawn = <<>>

IdleExt == IdleLoader /\ IdleUI /\ IdleDraw

IdleGeneration ==
    /\ pc = "start"
    /\ text = <<>>
    /\ demo_level = "moderate"
    /\ cols = 1
    /\ rows = 1
    /\ repeat_each = 1
    /\ show_demo = TRUE
    /\ fill_last_page = FALSE
    /\ blank_row_after_each = FALSE
    /\ chars = <<>>
    /\ page_chunks = <<>>
    /\ images = <<>>
    /\ pdf_bytes = <<>>
    /\ page_chars = <<>>
    /\ page_img = NoImage

IdleFont ==
    /\ installed = {"simhei.ttf"}
    /\ font_path = ""
    /\ font_cache = <<>>
    /\ font_ret = NoReturn

\* ------------------------------------------- specification: one generation
Init ==
    /\ pc = "start"
    /\ text \in Texts
    /\ demo_level = "moderate"
    /\ cols \in 1..MaxCols
    /\ rows \in 1..MaxRows
    /\ repeat_each \in 1..MaxRepeat
    /\ show_demo \in BOOLEAN
    /\ fill_last_page \in BOOLEAN
    /\ blank_row_after_each \in BOOLEAN
    /\ chars = <<>>
    /\ page_chunks = <<>>
    /\ images = <<>>
    /\ pdf_bytes = <<>>
    /\ page_chars = <<>>
    /\ page_img = NoImage
    /\ installed = {"simhei.ttf"}
    /\ font_path = ""
    /\ font_cache = <<>>
    /\ font_ret = NoReturn
    /\ IdleExt

\* images = generate_multi_page_images(text, ...).  The first page rendered
\* runs load_font and fills its cache; the later pages hit the cache.
Generate ==
    /\ pc = "start"
    /\ LET call == cached_load_font(font_cache, installed, font_path,
                       font_size_of(cols, rows))
           run == generate_multi_page_images(call.ret.font, text, demo_level,
                      cols, rows, repeat_each, show_demo, fill_last_page,
                      blank_row_after_each)
       IN  /\ chars' = run.chars
           /\ page_chunks' = run.page_chars
           /\ images' = run.images
           /\ font_cache' = IF run.images = <<>> THEN font_cache ELSE call.cache
           /\ font_ret' = IF run.images = <<>> THEN font_ret ELSE call.ret
    /\ pc' = "generated"
    /\ UNCHANGED <<args, pdf_bytes, page_vars, installed, font_path, ext_vars>>

\* pdf_bytes = images_to_pdf(images)
ExportPdf ==
    /\ pc = "generated"
    /\ pdf_bytes' = images_to_pdf(images)
    /\ pc' = "exported"
    /\ UNCHANGED <<args, chars, page_chunks, images, page_vars, font_vars, ext_vars>>

Next == Generate \/ ExportPdf

Spec == Init /\ [][Next]_vars

\* ------------------------------------ specification: the font resolver alone
InitFont ==
    /\ pc = "start"
    /\ text = <<>>
    /\ demo_level = "moderate"
    /\ cols = 1
    /\ rows = 1
    /\ repeat_each = 1
    /\ show_demo = TRUE
    /\ fill_last_page = FALSE
    /\ blank_row_after_each = FALSE
    /\ chars = <<>>
    /\ page_chunks = <<>>
    /\ images = <<>>
    /\ pdf_bytes = <<>>
    /\ page_chars = <<>>
    /\ page_img = NoImage
    /\ installed \in SUBSET FontFiles
    /\ font_path = ""
    /\ font_cache = <<>>
    /\ font_ret = NoReturn
    /\ IdleExt

\* font, info = load_font(path, size)
LoadFontCall(path, size) ==
    /\ LET call == cached_load_font(font_cache, installed, path, size)
       IN  /\ font_cache' = call.cache
           /\ font_ret' = call.ret
    /\ font_path' = path
    /\ UNCHANGED <<pc, args, gen_vars, page_vars, installed, ext_vars>>

\* The environment: a font file appears, or stops being loadable.
InstallFont(f) ==
    /\ f \notin installed
    /\ installed' = installed \cup {f}
    /\ UNCHANGED <<pc, args, gen_vars, page_vars, font_path, font_cache, font_ret, ext_vars>>

RemoveFont(f) ==
    /\ f \in installed
    /\ installed' = installed \ {f}
    /\ UNCHANGED <<pc, args, gen_vars, page_vars, font_path, font_cache, font_ret, ext_vars>>

NextFont ==
    \/ \E path \in RequestPaths, size \in FontSizes : LoadFontCall(path, size)
    \/ \E f \in FontFiles : InstallFont(f)
    \/ \E f \in FontFiles : RemoveFont(f)

SpecFont == InitFont /\ [][NextFont]_vars

\* ------------------------------------ specification: the corpus loader alone
InitLoader ==
    /\ IdleGeneration
    /\ IdleFont
    /\ IdleUI
    /\ IdleDraw
    /\ path_kind \in [DatasetPaths -> PathKinds]
    /\ loader_call = NoCall
    /\ loader_ret = Returned(<<>>)

LoaderIdle == UNCHANGED <<pc, args, gen_vars, page_vars, font_vars, path_kind, ui_vars, draw_vars>>

PoemsAsText(target) ==
    /\ loader_call' = [op |-> "poems_as_text", arg |-> <<target>>]
    /\ loader_ret' = poems_as_text(path_kind, target)
    /\ LoaderIdle

BodyExtractor(target) ==
    /\ loader_call' = [op |-> "body_extractor", arg |-> <<target>>]
    /\ loader_ret' = body_extractor(path_kind, target)
    /\ LoaderIdle

ExtractFromMultiple(targets) ==
    /\ loader_call' = [op |-> "extract_from_multiple", arg |-> targets]
    /\ loader_ret' = extract_from_multiple(path_kind, targets)
    /\ LoaderIdle

ExtractWithIds(ids) ==
    /\ loader_call' = [op |-> "extract_with_ids", arg |-> ids]
    /\ loader_ret' = extract_with_ids(path_kind, ids)
    /\ LoaderIdle

NextLoader ==
    \/ \E target \in TargetNames : PoemsAsText(target)
    \/ \E target \in TargetNames : BodyExtractor(target)
    \/ \E targets \in SeqsUpTo(TargetNames, MaxTargets) : ExtractFromMultiple(targets)
    \/ \E ids \in SeqsUpTo(TargetIds, MaxTargets) : ExtractWithIds(ids)

SpecLoader == InitLoader /\ [][NextLoader]_vars

\* ------------------------------------- specification: the page's reruns
\* One action is one rerun of the script, from the generate button to the
\* end of the preview section.  A rerun is started by a click on one button
\* or by a change of a widget, which clicks none.
InitUI ==
    /\ IdleGeneration
    /\ IdleFont
    /\ IdleLoader
    /\ IdleDraw
    /\ zitie_input_text = <<>>
    /\ widgets = DefaultWidgets
    /\ zitie_images = NewSession.zitie_images
    /\ zitie_total_pages = NewSession.zitie_total_pages
    /\ zitie_current_page = NewSession.zitie_current_page
    /\ zitie_pdf_bytes = NewSession.zitie_pdf_bytes
    /\ pressed = "none"
    /\ message = "none"
    /\ preview_shown = FALSE
    /\ label_page = 0
    /\ preview_page = 0
    /\ png_page = 0

Session ==
    [zitie_images |-> zitie_images, zitie_total_pages |-> zitie_total_pages,
     zitie_current_page |-> zitie_current_page,
     zitie_pdf_bytes |-> zitie_pdf_bytes]

Rerun(button, t, w) ==
    LET call == cached_load_font(font_cache, installed, font_path,
                                 font_size_of(w.cols, w.rows))
        gen == generate_button(Session, button = "generate", call.ret.font,
                               t, w)
        shown == preview_section(gen.session, button = "prev", button = "next")
    IN  /\ zitie_input_text' = t
        /\ widgets' = w
        /\ pressed' = button
        /\ message' = gen.message
        /\ zitie_images' = shown.session.zitie_images
        /\ zitie_total_pages' = shown.session.zitie_total_pages
        /\ zitie_current_page' = shown.session.zitie_current_page
        /\ zitie_pdf_bytes' = shown.session.zitie_pdf_bytes
        /\ preview_shown' = shown.view.shown
        /\ label_page' = shown.view.label_page
        /\ preview_page' = shown.view.preview_page
        /\ png_page' = shown.view.png_page
        /\ font_cache' = IF gen.message = "success" THEN call.cache ELSE font_cache
        /\ font_ret' = IF gen.message = "success" THEN call.ret ELSE font_ret
        /\ UNCHANGED <<pc, args, gen_vars, page_vars, installed, font_path,
                       loader_vars, draw_vars>>

\* The user edits the text area.
EditText(t) == Rerun("none", t, widgets)

\* The user moves a slider or ticks a check box.
ChangeWidgets(w) == Rerun("none", zitie_input_text, w)

PressGenerate == Rerun("generate", zitie_input_text, widgets)

\* The two page buttons are on the page only when the last rerun rendered
\* the preview section.
PressPrev == preview_shown /\ Rerun("prev", zitie_input_text, widgets)

PressNext == preview_shown /\ Rerun("next", zitie_input_text, widgets)

NextUI ==
    \/ \E t \in UITexts : EditText(t)
    \/ \E w \in Widgets : ChangeWidgets(w)
    \/ PressGenerate
    \/ PressPrev
    \/ PressNext

SpecUI == InitUI /\ [][NextUI]_vars

\* ------------------------------------ specification: one call of draw_grid
DrawOrigins == {0, margin_x}

InitDraw ==
    /\ IdleGeneration
    /\ IdleFont
    /\ IdleLoader
    /\ IdleUI
    /\ grid_type \in GridTypes
    /\ cell_x \in DrawOrigins
    /\ cell_y \in DrawOrigins
    /\ cell_sz \in 1..MaxDrawSize
    /\ cell_at = <<>>
    /\ drawn = <<>>

DrawGrid ==
    /\ pc = "start"
    /\ drawn' = draw_grid(cell_x, cell_y, cell_sz, grid_type)
    /\ pc' = "drawn"
    /\ UNCHANGED <<args, gen_vars, page_vars, font_vars, loader_vars, ui_vars,
                   grid_type, cell_x, cell_y, cell_sz, cell_at>>

NextDraw == DrawGrid

SpecDraw == InitDraw /\ [][NextDraw]_vars

\* ------------------------------ specification: the cell loop's geometry
\* generate_single_page_image for every cols and rows the sliders offer and
\* the smaller ones, one cell of its double loop per step.
InitCell ==
    /\ pc = "start"
    /\ text = <<>>
    /\ demo_level = "moderate"
    /\ cols \in 1..MaxGridCols
    /\ rows \in 1..MaxGridRows
    /\ repeat_each = 1
    /\ show_demo = TRUE
    /\ fill_last_page = FALSE
    /\ blank_row_after_each = FALSE
    /\ chars = <<>>
    /\ page_chunks = <<>>
    /\ images = <<>>
    /\ pdf_bytes = <<>>
    /\ page_chars = <<>>
    /\ page_img = NoImage
    /\ IdleFont
    /\ IdleLoader
    /\ IdleUI
    /\ IdleDraw

\* The iteration of the loop that follows cell_at, in row-major order.
NextCell ==
    IF cell_at = <<>> THEN <<0, 0>>
    ELSE IF cell_at[2] + 1 < cols THEN <<cell_at[1], cell_at[2] + 1>>
    ELSE <<cell_at[1] + 1, 0>>

DrawCell ==
    /\ pc \in {"start", "cells"}
    /\ NextCell[1] < rows
    /\ LET call == GridCall(NextCell[1], NextCell[2], cols, rows)
       IN  /\ cell_x' = call.x
           /\ cell_y' = call.y
           /\ cell_sz' = call.size
           /\ drawn' = draw_grid(call.x, call.y, call.size, grid_type)
    /\ cell_at' = NextCell
    /\ pc' = "cells"
    /\ UNCHANGED <<args, gen_vars, page_vars, font_vars, loader_vars, ui_vars,
                   grid_type>>

NextCellStep == DrawCell

SpecCell == InitCell /\ [][NextCellStep]_vars

\* ------------------------ properties of one generation (specification Spec)

\* The capacity and the demonstration rows as the specification states them.
StatedDemoRows ==
    IF blank_row_after_each THEN {r \in 0..(rows - 1) : r % 2 = 0}
    ELSE 0..(rows - 1)
StatedCeilHalfRows ==
    CHOOSE n \in 0..rows : 2 * n >= rows /\ 2 * (n - 1) < rows
StatedCapacity ==
    cols * (IF blank_row_after_each THEN StatedCeilHalfRows ELSE rows)

RECURSIVE Flatten(_)
Flatten(ss) == IF ss = <<>> THEN <<>> ELSE Head(ss) \o Flatten(Tail(ss))

RECURSIVE SumLen(_)
SumLen(ss) == IF ss = <<>> THEN 0 ELSE Len(Head(ss)) + SumLen(Tail(ss))

Generated == pc # "start" /\ chars # <<>>
LastChunk == page_chunks[Len(page_chunks)]

\* C1: without fill_last_page, page i (0-based) is handed exactly
\* stream[i*capacity : (i+1)*capacity], and the chunks concatenated in page
\* order are the stream: nothing dropped, duplicated or reordered.
C1_ChunksAreSlices ==
    (Generated /\ ~fill_last_page) =>
        /\ \A p \in 1..Len(page_chunks) :
              /\ Len(page_chunks[p]) =
                    Max(0, Min(StatedCapacity,
                               Len(chars) - (p - 1) * StatedCapacity))
              /\ \A k \in 1..Len(page_chunks[p]) :
                    page_chunks[p][k] = chars[(p - 1) * StatedCapacity + k]
        /\ Flatten(page_chunks) = chars

C1_Witness ==
    /\ pc = "generated"
    /\ ~fill_last_page
    /\ Len(page_chunks) >= 2
    /\ Len(LastChunk) < StatedCapacity
    /\ \E k \in 1..Len(page_chunks[1]) : page_chunks[1][k] # page_chunks[1][1]

\* C2: the page chunks together hold at least as many characters as the
\* stream, and exactly as many when fill_last_page is off.
C2_ChunkLengthsCoverStream ==
    Generated =>
        /\ SumLen(page_chunks) >= Len(chars)
        /\ ~fill_last_page => SumLen(page_chunks) = Len(chars)

C2_Witness ==
    /\ pc = "generated"
    /\ fill_last_page
    /\ Len(page_chunks) >= 2
    /\ SumLen(page_chunks) > Len(chars)

\* C3: with fill_last_page a short final chunk is extended to capacity with
\* copies of its own last character (the last character of the stream); its
\* prefix and all earlier chunks are the plain slices, so every page carries
\* exactly capacity characters.
C3_LastPagePadded ==
    (Generated /\ fill_last_page) =>
        \A p \in 1..Len(page_chunks) :
            /\ Len(page_chunks[p]) = StatedCapacity
            /\ \A k \in 1..Len(page_chunks[p]) :
                  LET j == (p - 1) * StatedCapacity + k
                  IN  page_chunks[p][k] =
                         IF j <= Len(chars) THEN chars[j] ELSE chars[Len(chars)]

C3_Witness ==
    /\ pc = "generated"
    /\ fill_last_page
    /\ Len(page_chunks) >= 2
    /\ Len(chars) % StatedCapacity >= 1
    /\ StatedCapacity - (Len(chars) % StatedCapacity) >= 2
    /\ Len(LastChunk) = StatedCapacity
    /\ LastChunk[StatedCapacity] = chars[Len(chars)]
    /\ page_chunks[1][1] # chars[Len(chars)]

\* C4: a non-empty stream gives max(1, ceil(len(stream) / capacity)) pages:
\* the least n >= 1 with n * capacity >= len(stream); one image per chunk,
\* and no page is handed an empty chunk.
C4_PageCount ==
    Generated =>
        /\ Len(images) >= 1
        /\ Len(images) * StatedCapacity >= Len(chars)
        /\ (Len(images) - 1) * StatedCapacity < Len(chars)
        /\ Len(page_chunks) = Len(images)
        /\ \A p \in 1..Len(page_chunks) : page_chunks[p] # <<>>

C4_Witness ==
    /\ pc = "generated"
    /\ blank_row_after_each
    /\ repeat_each >= 2
    /\ Len(images) >= 2
    /\ Len(images) * StatedCapacity = Len(chars)

\* C5: a text that is empty or all whitespace yields zero pages, and the
\* export of zero pages is a zero-length buffer.
AllWhitespace == \A k \in 1..Len(text) : text[k] \in Whitespace

C5_EmptyTextNoPages ==
    /\ (pc # "start" /\ AllWhitespace) => images = <<>>
    /\ (pc = "exported" /\ images = <<>>) => Len(pdf_bytes) = 0

C5_Witness ==
    /\ pc = "exported"
    /\ Len(text) >= 2
    /\ AllWhitespace
    /\ images = <<>>
    /\ pdf_bytes = <<>>

\* C6: the stream is the text's non-whitespace characters in their original
\* order, each repeated repeat_each times contiguously.
InkPositions == {k \in 1..Len(text) : text[k] \notin Whitespace}
NthInkPosition(m) ==
    CHOOSE q \in InkPositions :
        Cardinality({q2 \in InkPositions : q2 < q}) = m - 1

C6_StreamIsRepeatedInk ==
    pc # "start" =>
        /\ Len(chars) = repeat_each * Cardinality(InkPositions)
        /\ \A j \in 1..Len(chars) :
              chars[j] = text[NthInkPosition(((j - 1) \div repeat_each) + 1)]

C6_Witness ==
    /\ pc = "generated"
    /\ repeat_each >= 2
    /\ Len(text) = 3
    /\ text[1] \in InkChars
    /\ text[2] \in Whitespace
    /\ text[3] \in InkChars \ {text[1]}
    /\ Len(chars) = 2 * repeat_each

\* The cells of a page that carry a glyph, as entries of its text layer.
GlyphCells(img) == {k \in 1..Len(img.text_layer) : img.text_layer[k] # NoGlyph}
CellsOfRows(rs) == {r * cols + c + 1 : r \in rs, c \in 0..(cols - 1)}

\* C7: in skip mode the demonstration rows are the even rows 0,2,4,... and
\* there are ceil(rows/2) of them, otherwise every row is one; the paginator
\* fills a page with columns times that many characters, and the composer
\* offers exactly the cells of those rows.
C7_CapacityMatchesDemoCells ==
    Generated =>
        /\ Cardinality(StatedDemoRows) =
              (IF blank_row_after_each THEN StatedCeilHalfRows ELSE rows)
        /\ \A p \in 1..Len(page_chunks) :
              /\ Len(page_chunks[p]) <= cols * Cardinality(StatedDemoRows)
              /\ (p < Len(page_chunks) \/ fill_last_page) =>
                    Len(page_chunks[p]) = cols * Cardinality(StatedDemoRows)
              /\ (show_demo /\ Len(page_chunks[p]) >= StatedCapacity) =>
                    GlyphCells(images[p]) = CellsOfRows(StatedDemoRows)

C7_Witness ==
    /\ pc = "generated"
    /\ blank_row_after_each
    /\ rows = 5
    /\ cols = 2
    /\ show_demo
    /\ fill_last_page
    /\ Len(images) >= 1
    /\ Len(page_chunks[1]) = 6
    /\ GlyphCells(images[1]) = CellsOfRows({0, 2, 4})

\* --------------------------------- specification: one page, rendered alone
InitPage ==
    /\ pc = "start"
    /\ text = <<>>
    /\ demo_level \in DemoLevels
    /\ cols \in 1..MaxCols
    /\ rows \in 1..MaxRows
    /\ repeat_each = 1
    /\ show_demo \in BOOLEAN
    /\ fill_last_page = FALSE
    /\ blank_row_after_each \in BOOLEAN
    /\ chars = <<>>
    /\ page_chunks = <<>>
    /\ images = <<>>
    /\ pdf_bytes = <<>>
    /\ page_chars \in SeqsUpTo(InkChars, MaxPageChars)
    /\ page_img = NoImage
    /\ installed = {"simhei.ttf"}
    /\ font_path = ""
    /\ font_cache = <<>>
    /\ font_ret = NoReturn
    /\ IdleExt

\* page_img = generate_single_page_image(page_chars, ...)
RenderPage ==
    /\ pc = "start"
    /\ LET call == cached_load_font(font_cache, installed, font_path,
                       font_size_of(cols, rows))
       IN  /\ page_img' = generate_single_page_image(call.ret.font, page_chars,
                              demo_level, cols, rows, show_demo,
                              blank_row_after_each)
           /\ font_cache' = call.cache
           /\ font_ret' = call.ret
    /\ pc' = "rendered"
    /\ UNCHANGED <<args, gen_vars, page_chars, installed, font_path, ext_vars>>

NextPage == RenderPage

SpecPage == InitPage /\ [][NextPage]_vars

\* -------------------- properties of one rendered page (specification SpecPage)

\* The number of demonstration cells that precede cell <<r, c>> in row-major
\* order, when r is a demonstration row.
DemoRank(r, c) == Cardinality({r2 \in StatedDemoRows : r2 < r}) * cols + c

CellEntry(r, c) == r * cols + c + 1

\* C8: with show_demo the glyphs go to exactly the first
\* min(len(page_chars), capacity) demonstration cells in row-major order, the
\* k-th receiving page_chars[k]; every other cell has grid lines only; every
\* cell of the rows x columns grid has its decoration, a square of the cell
\* size at the cell's place.
C8_GlyphsFillFirstDemoCells ==
    (pc = "rendered" /\ show_demo) =>
        /\ Len(page_img.text_layer) = rows * cols
        /\ Len(page_img.grid) = rows * cols
        /\ Cardinality(GlyphCells(page_img)) <= Len(page_chars)
        /\ \A r \in 0..(rows - 1), c \in 0..(cols - 1) :
              LET glyph == page_img.text_layer[CellEntry(r, c)]
                  deco == page_img.grid[CellEntry(r, c)]
              IN  /\ IF /\ r \in StatedDemoRows
                        /\ DemoRank(r, c) < Min(Len(page_chars), StatedCapacity)
                     THEN glyph # NoGlyph /\ glyph.ch = page_chars[DemoRank(r, c) + 1]
                     ELSE glyph = NoGlyph
                  /\ deco.size > 0
                  /\ deco.x = page_img.grid[1].x + c * deco.size
                  /\ deco.y = page_img.grid[1].y + r * deco.size

C8_Witness ==
    /\ pc = "rendered"
    /\ show_demo
    /\ blank_row_after_each
    /\ rows >= 3
    /\ Len(page_chars) > cols
    /\ Len(page_chars) < StatedCapacity
    /\ page_img.text_layer[CellEntry(1, 0)] = NoGlyph
    /\ page_img.text_layer[CellEntry(2, 0)].ch = page_chars[cols + 1]
    /\ page_chars[cols + 1] # page_chars[1]

\* C9: with show_demo off no cell gets a glyph, whatever the characters and
\* the demo level; the grid decoration of every cell is still drawn.
C9_NoGlyphWithoutShowDemo ==
    (pc = "rendered" /\ ~show_demo) =>
        /\ GlyphCells(page_img) = {}
        /\ Len(page_img.text_layer) = rows * cols
        /\ Len(page_img.grid) = rows * cols

C9_Witness ==
    /\ pc = "rendered"
    /\ ~show_demo
    /\ Len(page_chars) >= 2
    /\ get_demo_alpha(demo_level) > 0
    /\ GlyphCells(page_img) = {}
    /\ Len(page_img.grid) = rows * cols

\* ------------------- properties of the font resolver (specification SpecFont)

\* The candidates in the stated order: the requested path when it is not
\* empty, then the fallback names; each with the source label of its stage.
StatedCandidates(path) ==
    (IF path # "" THEN <<[file |-> path, label |-> "user-selected font"]>>
     ELSE <<>>)
    \o << [file |-> "simkai.ttf", label |-> "fallback font (simkai.ttf)"],
          [file |-> "simhei.ttf", label |-> "fallback font (simhei.ttf)"],
          [file |-> "msyh.ttc", label |-> "fallback font (msyh.ttc)"] >>

\* What a call of load_font(path, size) must return.
FontCallOutcome(path, size, ret) ==
    LET cands == StatedCandidates(path)
        loading == {i \in 1..Len(cands) : cands[i].file \in installed}
        first == CHOOSE i \in loading : \A j \in loading : i <= j
        body_ran == <<path, size>> \notin DOMAIN font_cache
    IN  /\ ~ret.raised
        /\ ret.font # NoFont
        /\ body_ran =>
              IF loading = {}
              THEN ret.font = DefaultFont /\ ret.info.source = "Pillow default font"
              ELSE /\ ret.font = [file |-> cands[first].file, size |-> size]
                   /\ ret.info.source = cands[first].label
        /\ \/ ret.info.source = "Pillow default font" /\ ret.font = DefaultFont
           \/ \E i \in 1..Len(cands) :
                 /\ ret.info.source = cands[i].label
                 /\ ret.font = [file |-> cands[i].file, size |-> size]

\* C10: a call of load_font never raises and returns a usable font; when the
\* body runs it returns the first candidate that loads in the order requested
\* path (if not empty), simkai.ttf, simhei.ttf, msyh.ttc, built-in default;
\* and the source label of the returned metadata names the stage that
\* supplied the returned font (a call served from the cache returns the
\* result of the run that filled it).
C10_FontResolutionOrder ==
    [][\A path \in RequestPaths, size \in FontSizes :
          LoadFontCall(path, size) => FontCallOutcome(path, size, font_ret')]_vars

C10_Witness ==
    /\ font_path = "./fonts/kai.ttf"
    /\ font_ret.info.source = "fallback font (simhei.ttf)"
    /\ font_ret.font.file = "simhei.ttf"
    /\ <<font_path, PREVIEW_FONT_SIZE>> \in DOMAIN font_cache
    /\ installed = {"simhei.ttf", "msyh.ttc"}

\* ------------------ properties of the corpus loader (specification SpecLoader)

\* A dataset name or id the loader cannot serve: not in the registry, or
\* registered with a path that does not exist.
UnavailableName(t) ==
    t \notin {"song", "tang"} \/ path_kind[datasets[t].path] = "missing"
UnavailableId(i) ==
    i \notin {0, 1} \/ UnavailableName(IF i = 0 THEN "song" ELSE "tang")

\* The last call asked for something, and only for unavailable datasets.
AskedOnlyUnavailable ==
    /\ loader_call.op # "none"
    /\ loader_call.arg # <<>>
    /\ \A k \in 1..Len(loader_call.arg) :
          IF loader_call.op = "extract_with_ids"
          THEN UnavailableId(loader_call.arg[k])
          ELSE UnavailableName(loader_call.arg[k])

\* C11: every loader operation asked for an unregistered dataset, or for one
\* whose file or directory is missing, returns an empty list and does not
\* raise.
C11_LoaderDegrades ==
    AskedOnlyUnavailable =>
        /\ loader_ret.raised = "none"
        /\ ~loader_ret.is_none
        /\ loader_ret.value = <<>>

\* ------------------------ properties of the reruns (specification SpecUI)
WhitespaceOnly(t) == \A k \in 1..Len(t) : t[k] \in Whitespace

GenerateOnNothing ==
    /\ pressed' = "generate"
    /\ WhitespaceOnly(zitie_input_text')

\* C12: a press of the generate button while the text is empty or all
\* whitespace leaves the stored images, the total page count, the current
\* page and the PDF bytes of the session as they were.
C12_EmptyGenerateIsNoOp ==
    [][GenerateOnNothing => UNCHANGED session_vars]_vars

C12_Witness ==
    /\ pressed = "generate"
    /\ message = "warning"
    /\ zitie_input_text # <<>>
    /\ WhitespaceOnly(zitie_input_text)
    /\ Len(zitie_images) >= 2
    /\ zitie_total_pages = Len(zitie_images)
    /\ zitie_pdf_bytes # <<>>

\* ------------------- properties of one draw_grid call (specification SpecDraw)
\* off is a whole-pixel value of num / 3: the quotient rounded down or up.
WholePixelThird(off, num) == num - 2 <= 3 * off /\ 3 * off <= num + 2

DrawnLines == {drawn[k] : k \in {j \in 1..Len(drawn) : drawn[j].shape = "line"}}

\* The offsets from the cell origin of the vertical lines that run the
\* cell's height, and of the horizontal lines that run its width.
VerticalOffsets ==
    {d.x1 - cell_x : d \in {l \in DrawnLines :
        l.x1 = l.x2 /\ {l.y1, l.y2} = {cell_y, cell_y + cell_sz}}}

HorizontalOffsets ==
    {d.y1 - cell_y : d \in {l \in DrawnLines :
        l.y1 = l.y2 /\ {l.x1, l.x2} = {cell_x, cell_x + cell_sz}}}

StatedThirds ==
    {{a, b} : <<a, b>> \in {<<a, b>> \in (0..cell_sz) \X (0..cell_sz) :
        WholePixelThird(a, cell_sz) /\ WholePixelThird(b, 2 * cell_sz)}}

\* C13: the box-3x3 style draws the outer rectangle from the cell origin to
\* origin + size, and two vertical and two horizontal lines at the offsets
\* size / 3 and 2 * size / 3 in whole pixels; at size 90 they are 30 and 60.
C13_Box3x3Thirds ==
    (pc = "drawn" /\ grid_type = JIU) =>
        /\ Len(drawn) = 5
        /\ drawn[1] = Rectangle(cell_x, cell_y, cell_x + cell_sz, cell_y + cell_sz, 2)
        /\ Cardinality(DrawnLines) <= 4
        /\ VerticalOffsets \in StatedThirds
        /\ HorizontalOffsets \in StatedThirds
        /\ cell_sz = 90 => VerticalOffsets = {30, 60} /\ HorizontalOffsets = {30, 60}

\* ---------------- properties of the cell loop's geometry (specification SpecCell)
StatedCellSize == Min((2480 - 2 * 150) \div cols, (3508 - 2 * 250) \div rows)

\* The edges of the block of rows * cols cells, from the cell just drawn.
BlockLeft == cell_x - cell_at[2] * cell_sz
BlockRight == BlockLeft + cols * cell_sz
BlockTop == cell_y - cell_at[1] * cell_sz
BlockBottom == BlockTop + rows * cell_sz

Near(a, b) == a - b <= 1 /\ b - a <= 1

\* C14: the cell size is min(usable width div cols, usable height div rows);
\* the block of cells lies inside the usable area and is centred on the
\* page, the gaps on opposite sides differing by at most one pixel.
C14_GridCentred ==
    pc = "cells" =>
        /\ cell_sz = StatedCellSize
        /\ BlockLeft >= 150
        /\ BlockRight <= 2480 - 150
        /\ BlockTop >= 250
        /\ BlockBottom <= 3508 - 250
        /\ cell_x >= BlockLeft /\ cell_x + cell_sz <= BlockRight
        /\ cell_y >= BlockTop /\ cell_y + cell_sz <= BlockBottom
        /\ Near(BlockLeft, 2480 - BlockRight)
        /\ Near(BlockTop, 3508 - BlockBottom)

C14_Witness ==
    /\ pc = "cells"
    /\ cols >= 5
    /\ rows >= 5
    /\ cell_at = <<rows - 1, cols - 1>>
    /\ cell_sz = 2180 \div cols
    /\ BlockLeft > 150
    /\ 2480 - BlockRight = BlockLeft + 1

\* pdf is a PDF of the pages imgs, one page per image in their order.
PdfOfImages(pdf, imgs) ==
    /\ Len(pdf) = Len(imgs) + 1
    /\ pdf[1] = "%PDF"
    /\ \A p \in 1..Len(imgs) : pdf[p + 1] = [page |-> imgs[p]]

SessionConsistent ==
    /\ zitie_total_pages = Len(zitie_images)
    /\ zitie_images # <<>> =>
          /\ 1 <= zitie_current_page
          /\ zitie_current_page <= zitie_total_pages
          /\ PdfOfImages(zitie_pdf_bytes, zitie_images)

GenerateReplaces ==
    (pressed' = "generate" /\ ~WhitespaceOnly(zitie_input_text')) =>
        /\ zitie_images' # <<>>
        /\ zitie_images' = GeneratedImages(font_ret'.font, zitie_input_text', widgets')
        /\ zitie_current_page' = 1

PrevStopsAtFirst ==
    (pressed' = "prev" /\ zitie_current_page = 1) => zitie_current_page' = 1

NextStopsAtLast ==
    (pressed' = "next" /\ zitie_current_page = zitie_total_pages) =>
        zitie_current_page' = zitie_total_pages

\* C15: after any presses of the generate, previous-page and next-page
\* buttons the total page count is the number of stored images and, when
\* images are stored, the current page is within 1..total and the stored PDF
\* is that of the stored images; a generation that succeeds replaces the
\* images and goes to page 1; previous-page at page 1 and next-page at the
\* last page leave the current page as it is.
C15_SessionConsistent ==
    /\ []SessionConsistent
    /\ [][GenerateReplaces /\ PrevStopsAtFirst /\ NextStopsAtLast]_vars

C15_Witness ==
    /\ pressed = "next"
    /\ zitie_total_pages >= 2
    /\ zitie_current_page = zitie_total_pages
    /\ label_page = zitie_total_pages
    /\ SessionConsistent

\* C16: whenever the preview is shown, the page number of the navigation
\* label is the index of the image in the preview and the page number of the
\* PNG download button.
C16_LabelIsPreviewPage ==
    preview_shown => label_page = preview_page /\ label_page = png_page

====
